---- MODULE Spec2Model ----
(***************************************************************************)
(* Model of src/stories/components/Editor.tsx: the module-level            *)
(* configuration of the Monaco TypeScript defaults and the Editor          *)
(* component, which renders a markdown code block either as a live Monaco  *)
(* editor or as a static whitespace-preserving span.                       *)
(*                                                                         *)
(* JavaScript values are records [type, val]; `type` is what `typeof`      *)
(* returns.  Text is a sequence of characters over Chars.                  *)
(***************************************************************************)
EXTENDS Integers, Sequences, FiniteSets, TLC

\* ---------------------------------------------------------------- bounds
\* Longest buffer a user edit can produce.
MaxLen == 2

\* ------------------------------------------------------------- constants
\* code.split(...).length * 19 + 1
LineHeight == 19
Padding == 1

CR == "\r"
LF == "\n"
Chars == {"a", CR, LF}

\* The component instances on the page.
Instances == {"A", "B"}

\* ------------------------------------------------------------- JS values
Str(s) == [type |-> "string", val |-> s]
Undefined == [type |-> "undefined", val |-> <<>>]
\* A React element (any ReactNode that is not a string).
Element == [type |-> "object", val |-> <<>>]

typeOf(v) == v.type

\* className?: string
NoClass == [type |-> "undefined", val |-> ""]
LiveTag == [type |-> "string", val |-> "lang-tsx"]
ClassNames ==
  {LiveTag, [type |-> "string", val |-> "lang-bash"],
   [type |-> "string", val |-> ""], NoClass}

\* children?: React.ReactNode -- the texts the markdown parser hands over.
BlockTexts ==
  {<<>>, <<"a">>, <<"a", LF, "a">>, <<CR, LF>>}
Children == {Str(t) : t \in BlockTexts} \cup {Undefined, Element}

\* Every text the editor can report through onChange.
Buffers == UNION {[1..n -> Chars] : n \in 0..MaxLen}

\* ------------------------------------------------------- engine options
\* Monaco's typescriptDefaults before this module has touched them.
NoOptions == [configured |-> FALSE]

EditorCompilerOptions ==
  [configured |-> TRUE,
   target |-> "ESNext",
   allowNonTsExtensions |-> TRUE,
   jsx |-> "React",
   moduleResolution |-> "NodeJs",
   module |-> "CommonJS",
   noEmit |-> TRUE,
   strict |-> TRUE]

\* typescriptDefaults.setCompilerOptions(options): last write wins.
setCompilerOptions(current, options) == options

\* ------------------------------------------------------------------ state
VARIABLES
  pc,              \* "load" while the module body has not run, then "ready"
  compilerOptions, \* languages.typescript.typescriptDefaults
  setCalls,        \* number of setCompilerOptions calls made
  className,       \* props.className of each instance
  children,        \* props.children of each instance
  status,          \* "Uninitialized" | "Mounted" | "Unmounted"
  code,            \* the useState cell of each instance
  view,            \* what each instance last rendered
  pending          \* instances whose text the TypeScript worker is checking

vars ==
  <<pc, compilerOptions, setCalls, className, children, status, code, view,
    pending>>

props == <<className, children>>
engine == <<pc, compilerOptions, setCalls, pending>>

\* ------------------------------------------------------- pure functions
\* String.prototype.split(/\r\n|\r|\n/): the alternatives are tried in
\* order at each position, so "\r\n" is consumed as one separator.
RECURSIVE SplitFrom(_, _)
SplitFrom(s, cur) ==
  IF s = <<>> THEN <<cur>>
  ELSE IF Len(s) >= 2 /\ s[1] = CR /\ s[2] = LF
    THEN <<cur>> \o SplitFrom(SubSeq(s, 3, Len(s)), <<>>)
  ELSE IF s[1] = CR
    THEN <<cur>> \o SplitFrom(Tail(s), <<>>)
  ELSE IF s[1] = LF
    THEN <<cur>> \o SplitFrom(Tail(s), <<>>)
  ELSE SplitFrom(Tail(s), Append(cur, s[1]))

\* Splitting on every "\r" and every "\n" separately (/\r|\n/).
RECURSIVE SplitEachFrom(_, _)
SplitEachFrom(s, cur) ==
  IF s = <<>> THEN <<cur>>
  ELSE IF s[1] \in {CR, LF}
    THEN <<cur>> \o SplitEachFrom(Tail(s), <<>>)
  ELSE SplitEachFrom(Tail(s), Append(cur, s[1]))

splitEach(s) == SplitEachFrom(s, <<>>)

\* Splitting on "\n" with an optional "\r" before it (/\r?\n/): a lone
\* "\r" is not a separator.
RECURSIVE SplitLFFrom(_, _)
SplitLFFrom(s, cur) ==
  IF s = <<>> THEN <<cur>>
  ELSE IF Len(s) >= 2 /\ s[1] = CR /\ s[2] = LF
    THEN <<cur>> \o SplitLFFrom(SubSeq(s, 3, Len(s)), <<>>)
  ELSE IF s[1] = LF
    THEN <<cur>> \o SplitLFFrom(Tail(s), <<>>)
  ELSE SplitLFFrom(Tail(s), Append(cur, s[1]))

splitLF(s) == SplitLFFrom(s, <<>>)

split(s) == SplitFrom(s, <<>>)

\* An empty buffer given no line at all.
HeightEmptyZero(text) ==
  IF text = <<>> THEN Padding ELSE Len(split(text)) * LineHeight + Padding

\* const height = code.split(/\r\n|\r|\n/).length * 19 + 1;
Height(text) == Len(split(text)) * LineHeight + Padding

\* Variants of the test a slip in the condition would produce.
IsLiveAnyCode(cn, c) == cn = LiveTag
IsLiveNonEmpty(cn, c) == cn = LiveTag /\ typeOf(c) = "string" /\ c.val # <<>>
IsLiveAnyLang(cn, c) ==
  cn.val \in {"lang-tsx", "lang-bash"} /\ typeOf(c) = "string"

\* className === "lang-tsx" && typeof code === "string"
IsLive(cn, c) == cn = LiveTag /\ typeOf(c) = "string"

\* The options with the editor's folding controls left on.
EditorOptionsFolding ==
  [scrollbar |->
     [vertical |-> "hidden", verticalHasArrows |-> FALSE,
      verticalScrollbarSize |-> 0, verticalSliderSize |-> 0],
   scrollBeyondLastLine |-> FALSE,
   theme |-> "vs-dark",
   minimap |-> [enabled |-> FALSE],
   folding |-> TRUE]

\* options={{ ... }} of <MonacoEditor>
EditorOptions ==
  [scrollbar |->
     [vertical |-> "hidden", verticalHasArrows |-> FALSE,
      verticalScrollbarSize |-> 0, verticalSliderSize |-> 0],
   scrollBeyondLastLine |-> FALSE,
   theme |-> "vs-dark",
   minimap |-> [enabled |-> FALSE],
   folding |-> FALSE]

NoView == [kind |-> "None"]
\* The render threw (calling .split on a value that has no such method).
Thrown == [kind |-> "Error"]

\* The editor bound to the prop instead of the state (value={children}).
RenderOriginal(cn, ch, c) ==
  IF IsLive(cn, c)
    THEN IF typeOf(c) # "string" THEN Thrown ELSE
         [kind |-> "Live",
          defaultValue |-> ch.val,
          value |-> ch.val,
          height |-> Height(c.val),
          width |-> "100%",
          language |-> "typescript",
          options |-> EditorOptions]
    ELSE [kind |-> "Static",
          whiteSpace |-> "pre",
          children |-> ch]

\* A span whose output carries a count kept outside the component (how
\* many instances were on the page when it rendered).
RenderCounted(cn, ch, c) ==
  IF IsLive(cn, c)
    THEN IF typeOf(c) # "string" THEN Thrown ELSE
         [kind |-> "Live",
          defaultValue |-> c.val,
          value |-> c.val,
          height |-> Height(c.val),
          width |-> "100%",
          language |-> "typescript",
          options |-> EditorOptions]
    ELSE [kind |-> "Static",
          whiteSpace |-> "pre",
          children |-> ch,
          key |-> Cardinality({j \in Instances : status[j] = "Mounted"})]

\* The span showing the state cell instead of the prop ({code}).
RenderStaticFromState(cn, ch, c) ==
  IF IsLive(cn, c)
    THEN IF typeOf(c) # "string" THEN Thrown ELSE
         [kind |-> "Live",
          defaultValue |-> c.val,
          value |-> c.val,
          height |-> Height(c.val),
          width |-> "100%",
          language |-> "typescript",
          options |-> EditorOptions]
    ELSE [kind |-> "Static",
          whiteSpace |-> "pre",
          children |-> c]

\* The span without white-space: pre (runs of blanks and line breaks
\* collapse when displayed).
RenderCollapsed(cn, ch, c) ==
  IF IsLive(cn, c)
    THEN IF typeOf(c) # "string" THEN Thrown ELSE
         [kind |-> "Live",
          defaultValue |-> c.val,
          value |-> c.val,
          height |-> Height(c.val),
          width |-> "100%",
          language |-> "typescript",
          options |-> EditorOptions]
    ELSE [kind |-> "Static",
          whiteSpace |-> "normal",
          children |-> ch]

\* The element the component returns for one render.
Render(cn, ch, c) ==
  IF IsLive(cn, c)
    THEN IF typeOf(c) # "string" THEN Thrown ELSE
         [kind |-> "Live",
          defaultValue |-> c.val,
          value |-> c.val,
          height |-> Height(c.val),
          width |-> "100%",
          language |-> "typescript",
          options |-> EditorOptions]
    ELSE [kind |-> "Static",
          whiteSpace |-> "pre",
          children |-> ch]

\* A state cell that starts empty instead of from the prop.
useStateEmpty(initial) == Str(<<>>)

\* React.useState(children): the initial state is the first render's prop.
useState(initial) == initial

\* An empty text stored as no text at all (setCode(newCode || undefined)).
setCodeFalsy(cells, i, newCode) ==
  [cells EXCEPT ![i] = IF newCode = <<>> THEN Undefined ELSE Str(newCode)]

\* One cell shared by all instances (state kept at module level).
setCodeShared(cells, i, newCode) == [j \in DOMAIN cells |-> Str(newCode)]

\* setCode(newCode) on the state cell of instance i.
setCode(cells, i, newCode) == [cells EXCEPT ![i] = Str(newCode)]

Init ==
  /\ pc = "load"
  /\ compilerOptions = NoOptions
  /\ setCalls = 0
  /\ className \in [Instances -> ClassNames]
  /\ children \in [Instances -> Children]
  /\ status = [i \in Instances |-> "Uninitialized"]
  /\ code = [i \in Instances |-> Undefined]
  /\ view = [i \in Instances |-> NoView]
  /\ pending = [i \in Instances |-> FALSE]

\* Evaluation of the module body: the setCompilerOptions statement runs
\* before the Editor binding exists.
ModuleInit ==
  /\ pc = "load"
  /\ compilerOptions' = setCompilerOptions(compilerOptions, EditorCompilerOptions)
  /\ setCalls' = setCalls + 1
  /\ pc' = "ready"
  /\ UNCHANGED <<props, status, code, view, pending>>

\* Per-instance options as in the commented-out sandbox code.
SandboxCompilerOptions ==
  [EditorCompilerOptions EXCEPT !.target = "ES2017", !.jsx = "Preserve"]

\* A mount that does not wait for the module body.
MountAnytime(i) ==
  /\ status[i] = "Uninitialized"
  /\ status' = [status EXCEPT ![i] = "Mounted"]
  /\ code' = [code EXCEPT ![i] = useState(children[i])]
  /\ view' = [view EXCEPT ![i] = Render(className[i], children[i], code'[i])]
  /\ UNCHANGED <<engine, props>>

\* A mount that configures the engine for its own instance.
MountConfigures(i) ==
  /\ pc = "ready"
  /\ status[i] = "Uninitialized"
  /\ status' = [status EXCEPT ![i] = "Mounted"]
  /\ code' = [code EXCEPT ![i] = useState(children[i])]
  /\ view' = [view EXCEPT ![i] = Render(className[i], children[i], code'[i])]
  /\ compilerOptions' = setCompilerOptions(compilerOptions, SandboxCompilerOptions)
  /\ UNCHANGED <<pc, setCalls, pending, props>>

\* First render of an instance.
Mount(i) ==
  /\ pc = "ready"
  /\ status[i] = "Uninitialized"
  /\ status' = [status EXCEPT ![i] = "Mounted"]
  /\ code' = [code EXCEPT ![i] = useState(children[i])]
  /\ view' = [view EXCEPT ![i] = Render(className[i], children[i], code'[i])]
  /\ UNCHANGED <<engine, props>>

\* A change handler that is also attached to the static span.
onChangeAnyView(i, newCode) ==
  /\ status[i] = "Mounted"
  /\ code' = setCode(code, i, newCode)
  /\ view' = [view EXCEPT ![i] = Render(className[i], children[i], code'[i])]
  /\ UNCHANGED <<engine, props, status>>

\* The state update without the render that should follow it.
onChangeStale(i, newCode) ==
  /\ status[i] = "Mounted"
  /\ view[i].kind = "Live"
  /\ code' = setCode(code, i, newCode)
  /\ UNCHANGED <<engine, props, status, view>>

\* onChange={newCode => setCode(newCode)} followed by the re-render that
\* the state update schedules.
onChange(i, newCode) ==
  /\ status[i] = "Mounted"
  /\ view[i].kind = "Live"
  /\ code' = setCode(code, i, newCode)
  /\ view' = [view EXCEPT ![i] = Render(className[i], children[i], code'[i])]
  /\ UNCHANGED <<engine, props, status>>

\* A re-render that seeds the state cell again from the prop.
ReRenderReseeds(i) ==
  /\ status[i] = "Mounted"
  /\ code' = [code EXCEPT ![i] = useState(children[i])]
  /\ view' = [view EXCEPT ![i] = Render(className[i], children[i], code'[i])]
  /\ UNCHANGED <<engine, props, status>>

\* A re-render with the same props (the parent rendered again).
ReRender(i) ==
  /\ status[i] = "Mounted"
  /\ view' = [view EXCEPT ![i] = Render(className[i], children[i], code[i])]
  /\ UNCHANGED <<engine, props, status, code>>

\* A removal that leaves the state cell behind.
UnmountKeepsState(i) ==
  /\ status[i] = "Mounted"
  /\ status' = [status EXCEPT ![i] = "Unmounted"]
  /\ view' = [view EXCEPT ![i] = NoView]
  /\ UNCHANGED <<engine, props, code>>

\* Removal from the document: the state cell goes away with the instance.
Unmount(i) ==
  /\ status[i] = "Mounted"
  /\ status' = [status EXCEPT ![i] = "Unmounted"]
  /\ code' = [code EXCEPT ![i] = Undefined]
  /\ view' = [view EXCEPT ![i] = NoView]
  /\ UNCHANGED <<engine, props>>

Next ==
  \/ ModuleInit
  \/ \E i \in Instances : Mount(i)
  \/ \E i \in Instances, newCode \in Buffers : onChange(i, newCode)
  \/ \E i \in Instances : ReRender(i)
  \/ \E i \in Instances : Unmount(i)

Spec == Init /\ [][Next]_vars

\* The first render of a live block whose <MonacoEditor> throws while it
\* attaches.  Editor has no try/catch and is not an error boundary, so the
\* exception leaves the component: the instance renders nothing.  Whether an
\* ancestor outside this module catches it (contained) or React removes the
\* whole tree, mounted siblings included, is not decided by this module.
MountFails(i, contained) ==
  /\ pc = "ready"
  /\ status[i] = "Uninitialized"
  /\ IsLive(className[i], useState(children[i]))
  /\ status' = [j \in Instances |->
                  IF j = i THEN "Failed"
                  ELSE IF ~contained /\ status[j] = "Mounted" THEN "Unmounted"
                  ELSE status[j]]
  /\ code' = [j \in Instances |->
                IF j = i \/ (~contained /\ status[j] = "Mounted")
                  THEN Undefined ELSE code[j]]
  /\ view' = [j \in Instances |->
                IF j = i THEN Thrown
                ELSE IF ~contained /\ status[j] = "Mounted" THEN NoView
                ELSE view[j]]
  /\ UNCHANGED <<engine, props>>

NextFail ==
  \/ Next
  \/ \E i \in Instances, contained \in BOOLEAN : MountFails(i, contained)

\* The component together with mounts that fail.
SpecFail == Init /\ [][NextFail]_vars

\* language="typescript": the editor hands the text of a live instance to
\* the TypeScript worker on its own schedule ...
EngineStart(i) ==
  /\ status[i] = "Mounted"
  /\ view[i].kind = "Live"
  /\ ~pending[i]
  /\ pending' = [pending EXCEPT ![i] = TRUE]
  /\ UNCHANGED <<pc, compilerOptions, setCalls, props, status, code, view>>

\* ... and the result arrives later, inside the editor: the component
\* passes no callback that receives it.
EngineResult(i) ==
  /\ pending[i]
  /\ pending' = [pending EXCEPT ![i] = FALSE]
  /\ UNCHANGED <<pc, compilerOptions, setCalls, props, status, code, view>>

NextEngine ==
  \/ Next
  \/ \E i \in Instances : EngineStart(i)
  \/ \E i \in Instances : EngineResult(i)

\* A page of fenced blocks tagged tsx or bash, each one or two lines long.
SampleClassNames == {LiveTag, [type |-> "string", val |-> "lang-bash"]}
SampleChildren == {Str(<<"a">>), Str(<<"a", LF, "a">>)}

InitSample ==
  /\ Init
  /\ \A i \in Instances :
       className[i] \in SampleClassNames /\ children[i] \in SampleChildren

\* The component together with the asynchronous compile/typecheck calls.
SpecEngine == InitSample /\ [][NextEngine]_vars

\* A re-render that copies a changed children prop into the state cell.
ReRenderPropsReseeds(i, cn, ch) ==
  /\ status[i] = "Mounted"
  /\ className' = [className EXCEPT ![i] = cn]
  /\ children' = [children EXCEPT ![i] = ch]
  /\ code' = [code EXCEPT ![i] = IF ch # children[i] THEN ch ELSE code[i]]
  /\ view' = [view EXCEPT ![i] = Render(cn, ch, code'[i])]
  /\ UNCHANGED <<engine, status>>

\* A re-render that starts the instance afresh when its tag changes.
ReRenderPropsRemounts(i, cn, ch) ==
  /\ status[i] = "Mounted"
  /\ className' = [className EXCEPT ![i] = cn]
  /\ children' = [children EXCEPT ![i] = ch]
  /\ code' = [code EXCEPT ![i] =
                IF cn # className[i] THEN useState(ch) ELSE code[i]]
  /\ view' = [view EXCEPT ![i] = Render(cn, ch, code'[i])]
  /\ UNCHANGED <<engine, status>>

\* A re-render of a mounted instance with new props: useState ignores its
\* argument after the first render, so the state cell is left alone.
ReRenderProps(i, cn, ch) ==
  /\ status[i] = "Mounted"
  /\ className' = [className EXCEPT ![i] = cn]
  /\ children' = [children EXCEPT ![i] = ch]
  /\ view' = [view EXCEPT ![i] = Render(cn, ch, code[i])]
  /\ UNCHANGED <<engine, status, code>>

\* The texts a parent may pass: the sample texts, or none at all.
PassedChildren == SampleChildren \cup {Undefined}

InitProps ==
  /\ Init
  /\ \A i \in Instances :
       className[i] \in SampleClassNames /\ children[i] \in PassedChildren

NextProps ==
  \/ Next
  \/ \E i \in Instances, cn \in SampleClassNames, ch \in PassedChildren :
       ReRenderProps(i, cn, ch)

\* The component on a page whose parent may pass new props.
SpecProps == InitProps /\ [][NextProps]_vars

TypeOK ==
  /\ pc \in {"load", "ready"}
  /\ setCalls \in 0..1
  /\ \A i \in Instances :
       /\ status[i] \in {"Uninitialized", "Mounted", "Unmounted"}
       /\ view[i].kind \in {"None", "Live", "Static", "Error"}

Mounted(i) == status[i] = "Mounted"
IsStringText(v) == typeOf(v) = "string"

\* ------------------------------------------------------------- C1
\* C1 as stated: a mounted block is rendered Live exactly when its tag is
\* "lang-tsx" and its text is a NON-EMPTY string; otherwise Static.
C1_AsStated ==
  \A i \in Instances : Mounted(i) =>
    /\ view[i].kind \in {"Live", "Static"}
    /\ view[i].kind = "Live" <=>
         (className[i] = LiveTag /\ IsStringText(children[i])
            /\ children[i].val # <<>>)

\* C1 amended: a mounted block is rendered Live exactly when its tag is
\* "lang-tsx" and its text is a string (the empty string included); every
\* other combination is rendered Static.
C1_LiveIffTagAndString ==
  \A i \in Instances : Mounted(i) =>
    /\ view[i].kind \in {"Live", "Static"}
    /\ view[i].kind = "Live" <=>
         (className[i] = LiveTag /\ IsStringText(children[i]))

C1_Witness ==
  \E i, j \in Instances :
    /\ Mounted(i) /\ className[i] = LiveTag /\ children[i] = Str(<<"a">>)
    /\ view[i].kind = "Live"
    /\ Mounted(j) /\ className[j] = LiveTag /\ children[j] = Undefined
    /\ view[j].kind = "Static"

\* ------------------------------------------------------------- C2
\* C2 as stated: a mounted block with tag "lang-tsx" and the empty string
\* as text is rendered by the static span.
C2_AsStated ==
  \A i \in Instances :
    (Mounted(i) /\ className[i] = LiveTag /\ children[i] = Str(<<>>))
      => view[i].kind = "Static"

\* C2 amended: a mounted block with tag "lang-tsx" and the empty string as
\* text is rendered as a live editor whose buffer is a string.
C2_EmptyTextIsLive ==
  \A i \in Instances :
    (Mounted(i) /\ className[i] = LiveTag /\ children[i] = Str(<<>>))
      => view[i].kind = "Live"

C2_Witness ==
  \E i \in Instances :
    /\ Mounted(i) /\ className[i] = LiveTag /\ children[i] = Str(<<>>)
    /\ code[i] = Str(<<>>)
    /\ view[i].kind = "Live" /\ view[i].value = <<>>

\* ------------------------------------------------------------- C3
\* C3: every mounted block renders as exactly one of Live and Static and
\* never as an error, and a block whose tag is not "lang-tsx" (another
\* string, the empty string or absent) renders Static whatever its text.
C3_OtherTagsStatic ==
  \A i \in Instances : Mounted(i) =>
    /\ view[i].kind \in {"Live", "Static"}
    /\ className[i] # LiveTag => view[i].kind = "Static"

C3_Witness ==
  \E i, j \in Instances :
    /\ Mounted(i) /\ className[i] = [type |-> "string", val |-> "lang-bash"]
    /\ children[i] = Str(<<"a">>) /\ view[i].kind = "Static"
    /\ Mounted(j) /\ className[j] = NoClass /\ view[j].kind = "Static"
\* ------------------------------------------------------------- C4
\* Line breaks of a text, counted position by position: every "\n", and
\* every "\r" that is not immediately followed by "\n".
Breaks(t) ==
  Cardinality({k \in 1..Len(t) :
                 \/ t[k] = LF
                 \/ t[k] = CR /\ (k = Len(t) \/ t[k + 1] # LF)})

LiveInst(i) == Mounted(i) /\ view[i].kind = "Live"

\* C4: in every state, the height of a mounted live editor is (line breaks
\* of its current state + 1) * 19 + 1.
C4_HeightTracksBuffer ==
  \A i \in Instances : LiveInst(i) =>
    view[i].height = (Breaks(code[i].val) + 1) * 19 + 1

C4_Witness ==
  \E i \in Instances :
    /\ LiveInst(i) /\ children[i] = Str(<<"a", LF, "a">>)
    /\ code[i] = Str(<<LF, LF>>)
    /\ view[i].height = 58

\* The step is an edit of instance i: onChange delivered the text that is
\* the instance's state afterwards.
EditStep(i) == onChange(i, code'[i].val)

\* ------------------------------------------------------------- C5
\* C5: an edit that adds exactly one line break raises the height by
\* exactly 19, and an edit that removes exactly one lowers it by exactly 19.
C5_OneBreakOneLineHeight ==
  [][\A i \in Instances :
       EditStep(i) =>
         /\ Breaks(code'[i].val) = Breaks(code[i].val) + 1
              => view'[i].height = view[i].height + 19
         /\ Breaks(code'[i].val) = Breaks(code[i].val) - 1
              => view'[i].height = view[i].height - 19]_vars

C5_Witness ==
  \E i, j \in Instances :
    /\ LiveInst(i) /\ children[i] = Str(<<"a">>) /\ code[i] = Str(<<CR, LF>>)
    /\ view[i].height = 39
    /\ LiveInst(j) /\ children[j] = Str(<<CR, LF>>) /\ code[j] = Str(<<"a">>)
    /\ view[j].height = 20

\* ------------------------------------------------------------- C6
\* C6: the step that mounts an instance leaves its state equal to the
\* block's text, and a live editor then shows that text at the height
\* computed from it.
C6_SeededFromBlockText ==
  [][\A i \in Instances :
       (status[i] = "Uninitialized" /\ status'[i] = "Mounted") =>
         /\ code'[i] = children[i]
         /\ view'[i].kind = "Live" =>
              /\ view'[i].value = children[i].val
              /\ view'[i].height = (Breaks(children[i].val) + 1) * 19 + 1]_vars

C6_Witness ==
  \E i \in Instances :
    /\ LiveInst(i) /\ children[i] = Str(<<"a">>) /\ code[i] = children[i]
    /\ view[i].value = <<"a">> /\ view[i].height = 20

\* ------------------------------------------------------------- C7
\* C7: after every edit the instance is still a live editor and the value
\* it displays is the text that edit stored as the instance's state.
C7_ShowsLatestEdit ==
  [][\A i \in Instances :
       EditStep(i) =>
         /\ view'[i].kind = "Live"
         /\ view'[i].value = code'[i].val]_vars

C7_Witness ==
  \E i \in Instances :
    /\ LiveInst(i) /\ code[i] # children[i]
    /\ view[i].value = code[i].val /\ view[i].value # children[i].val

\* ------------------------------------------------------------- C8
\* C8: an edit of one instance leaves the state and the height of every
\* other mounted live instance unchanged.
C8_EditIsLocal ==
  [][\A a, b \in Instances :
       (a # b /\ LiveInst(b) /\ EditStep(a)) =>
         /\ code'[b] = code[b]
         /\ view'[b].kind = "Live"
         /\ view'[b].height = view[b].height]_vars

C8_Witness ==
  \E a, b \in Instances :
    /\ a # b /\ LiveInst(a) /\ LiveInst(b)
    /\ code[a] # children[a] /\ code[b] = children[b]
    /\ code[a] # code[b] /\ view[a].height # view[b].height

\* ------------------------------------------------------------- C9
\* C9: setCompilerOptions is called at most once, and an instance is only
\* ever mounted after that call has been made.
C9_ConfiguredBeforeMount ==
  /\ setCalls <= 1
  /\ \A i \in Instances :
       status[i] # "Uninitialized" =>
         setCalls = 1 /\ compilerOptions # NoOptions

C9_Witness ==
  \E i \in Instances : LiveInst(i) /\ setCalls = 1 /\ pc = "ready"

\* ------------------------------------------------------------- C10
\* C10: once the module body has run, the compiler options are target
\* ESNext, module CommonJS, module resolution NodeJs, JSX React, noEmit and
\* strict, and no later step (mount, edit, re-render, unmount) changes them.
C10_OptionsFixed ==
  [][/\ pc' = "ready" =>
          /\ compilerOptions'.target = "ESNext"
          /\ compilerOptions'.module = "CommonJS"
          /\ compilerOptions'.moduleResolution = "NodeJs"
          /\ compilerOptions'.jsx = "React"
          /\ compilerOptions'.noEmit = TRUE
          /\ compilerOptions'.strict = TRUE
     /\ pc = "ready" => compilerOptions' = compilerOptions]_vars

C10_Witness ==
  \E i, j \in Instances :
    /\ LiveInst(i) /\ code[i] # children[i]
    /\ status[j] = "Unmounted"
    /\ compilerOptions = EditorCompilerOptions
\* ------------------------------------------------------------- C12
\* C12 as stated: every live editor, in every state, is given options that
\* hide the vertical scrollbar, hide the horizontal scrollbar, disable the
\* minimap, disable folding and select the dark theme.
C12_AsStated ==
  \A i \in Instances : LiveInst(i) =>
    /\ view[i].options.scrollbar.vertical = "hidden"
    /\ "horizontal" \in DOMAIN view[i].options.scrollbar
    /\ view[i].options.scrollbar.horizontal = "hidden"
    /\ view[i].options.minimap.enabled = FALSE
    /\ view[i].options.folding = FALSE
    /\ view[i].options.theme = "vs-dark"

\* C12 amended: every live editor, in every state, is given options that
\* hide the vertical scrollbar (size 0, no arrows), disable the minimap,
\* disable folding and select the dark theme; the options say nothing about
\* the horizontal scrollbar.
C12_ChromeFixed ==
  \A i \in Instances : LiveInst(i) =>
    /\ view[i].options.scrollbar.vertical = "hidden"
    /\ view[i].options.scrollbar.verticalScrollbarSize = 0
    /\ view[i].options.scrollbar.verticalHasArrows = FALSE
    /\ "horizontal" \notin DOMAIN view[i].options.scrollbar
    /\ view[i].options.minimap.enabled = FALSE
    /\ view[i].options.folding = FALSE
    /\ view[i].options.theme = "vs-dark"

C12_Witness ==
  \E i \in Instances :
    /\ LiveInst(i) /\ code[i] # children[i]
    /\ view[i].options.folding = FALSE
    /\ view[i].options.scrollbar.vertical = "hidden"
\* ------------------------------------------------------------- C13
\* C13: a block whose live editor failed to mount is rendered as the static
\* span showing the block's text.
C13_FailedMountFallsBack ==
  \A i \in Instances :
    status[i] = "Failed" =>
      /\ view[i].kind = "Static"
      /\ view[i].children = children[i]

\* ------------------------------------------------------------- C14
\* C14: the step in which one instance fails to mount leaves every other
\* instance as it was: same lifecycle status, same state, same rendering.
C14_FailureContained ==
  [][\A a, b \in Instances :
       (a # b /\ status[a] # "Failed" /\ status'[a] = "Failed") =>
         /\ status'[b] = status[b]
         /\ code'[b] = code[b]
         /\ view'[b] = view[b]]_vars
\* ------------------------------------------------------------- C15
StaticInst(i) == Mounted(i) /\ view[i].kind = "Static"

\* C15: every mounted static block shows exactly the block's text (the
\* empty string included) in a span that preserves white space.
C15_StaticShowsText ==
  \A i \in Instances : StaticInst(i) =>
    /\ view[i].children = children[i]
    /\ view[i].whiteSpace = "pre"

C15_Witness ==
  \E i, j \in Instances :
    /\ StaticInst(i) /\ children[i] = Str(<<CR, LF>>)
    /\ view[i].children = Str(<<CR, LF>>)
    /\ StaticInst(j) /\ children[j] = Str(<<>>)
    /\ view[j].children = Str(<<>>)

EditEnabled(i) == ENABLED (\E newCode \in Buffers : onChange(i, newCode))

\* C17: while a block is rendered statically no edit of it is enabled, and
\* no step of the page changes what it displays or its state.
C17_StaticNotEditable ==
  [][\A i \in Instances : StaticInst(i) =>
       /\ ~EditEnabled(i)
       /\ status'[i] = "Mounted" =>
            (view'[i] = view[i] /\ code'[i] = code[i])]_vars

C17_Witness ==
  \E i, j \in Instances :
    /\ StaticInst(i) /\ className[i] = LiveTag /\ children[i] = Undefined
    /\ LiveInst(j) /\ code[j] # children[j]

\* ------------------------------------------------------------- C18
\* C18 as stated: two mounted blocks with the same tag are rendered the
\* same way (classification is a function of the tag alone), and a mounted
\* block never changes from one kind of rendering to the other.
C18_AsStated ==
  [][\A i, j \in Instances :
       /\ (status'[i] = "Mounted" /\ status'[j] = "Mounted"
             /\ className'[i] = className'[j])
            => view'[i].kind = view'[j].kind
       /\ (Mounted(i) /\ status'[i] = "Mounted")
            => view'[i].kind = view[i].kind]_vars

\* C18 amended: two mounted blocks with the same tag and the same type of
\* text are rendered the same way, and a mounted block never changes from
\* one kind of rendering to the other.
C18_ClassificationStable ==
  [][\A i, j \in Instances :
       /\ (status'[i] = "Mounted" /\ status'[j] = "Mounted"
             /\ className'[i] = className'[j]
             /\ typeOf(children'[i]) = typeOf(children'[j]))
            => view'[i].kind = view'[j].kind
       /\ (Mounted(i) /\ status'[i] = "Mounted")
            => view'[i].kind = view[i].kind]_vars

C18_Witness ==
  \E i, j \in Instances :
    /\ LiveInst(i) /\ children[i] = Str(<<"a">>) /\ code[i] = Str(<<>>)
    /\ LiveInst(j) /\ children[j] = Str(<<>>) /\ code[j] = Str(<<"a">>)

\* ------------------------------------------------------------- C19
\* C19: every edit of a live instance (one that empties the buffer
\* included) leaves it mounted as a live editor holding a string, and a
\* live instance stops being one only by being unmounted.
C19_StaysReady ==
  [][\A i \in Instances :
       /\ EditStep(i) =>
            /\ status'[i] = "Mounted"
            /\ view'[i].kind = "Live"
            /\ typeOf(code'[i]) = "string"
       /\ (LiveInst(i) /\ ~(status'[i] = "Mounted" /\ view'[i].kind = "Live"))
            => Unmount(i)]_vars

C19_Witness ==
  \E i \in Instances :
    /\ LiveInst(i) /\ children[i] = Str(<<"a", LF, "a">>)
    /\ code[i] = Str(<<>>) /\ view[i].value = <<>>

\* ------------------------------------------------------------- C20
\* C20: an unmounted instance has no state and no rendering, no edit of it
\* is enabled, and it stays unmounted.
C20_UnmountedTerminal ==
  /\ [](\A i \in Instances : status[i] = "Unmounted" =>
          /\ code[i] = Undefined
          /\ view[i] = NoView
          /\ ~EditEnabled(i))
  /\ [][\A i \in Instances :
          status[i] = "Unmounted" => status'[i] = "Unmounted"]_vars

C20_Witness ==
  \E i, j \in Instances :
    /\ status[i] = "Unmounted" /\ className[i] = LiveTag
    /\ children[i] = Str(<<"a">>) /\ code[i] = Undefined
    /\ LiveInst(j) /\ code[j] # children[j]
\* ------------------------------------------------------------- C21
\* C21: a step that changes the state of a mounted live instance is not
\* the engine configuration, nor a re-render, nor an engine request or
\* result, nor the mount, unmount or edit of another instance; if the
\* instance stays mounted, the step is an edit of that same instance.
C21_OnlyEditsChangeState ==
  [][\A i \in Instances : (LiveInst(i) /\ code'[i] # code[i]) =>
       /\ ~ModuleInit
       /\ \A j \in Instances :
            ~ReRender(j) /\ ~EngineStart(j) /\ ~EngineResult(j)
       /\ \A j \in Instances \ {i} :
            ~Mount(j) /\ ~Unmount(j) /\ ~EditStep(j)
       /\ status'[i] = "Mounted" => EditStep(i)]_vars

C21_Witness ==
  \E i, j \in Instances :
    /\ LiveInst(i) /\ code[i] # children[i] /\ ~pending[i]
    /\ status[j] = "Unmounted" /\ pending[j]

\* ------------------------------------------------------------- C22
\* C22: whether or not the result of a compile/typecheck is outstanding,
\* the height of a live editor is the height computed from its current
\* state.
C22_HeightIgnoresEngine ==
  \A i \in Instances : LiveInst(i) =>
    /\ pending[i] => view[i].height = (Breaks(code[i].val) + 1) * 19 + 1
    /\ ~pending[i] => view[i].height = (Breaks(code[i].val) + 1) * 19 + 1

C22_Witness ==
  \E i, j \in Instances :
    /\ LiveInst(i) /\ pending[i] /\ code[i] = Str(<<LF, LF>>)
    /\ children[i] = Str(<<"a">>) /\ view[i].height = 58
    /\ LiveInst(j) /\ ~pending[j] /\ code[j] = Str(<<>>)
    /\ children[j] = Str(<<"a", LF, "a">>) /\ view[j].height = 20
\* ------------------------------------------------------------- C23
\* C23: a mounted instance tagged "lang-tsx" whose state is a string is a
\* live editor at least 20 high, and exactly 20 high when the string is
\* empty (the user deleted everything).
C23_EmptyBufferStillLive ==
  \A i \in Instances :
    (Mounted(i) /\ className[i] = LiveTag /\ typeOf(code[i]) = "string") =>
      /\ view[i].kind = "Live"
      /\ view[i].height >= 20
      /\ code[i].val = <<>> => view[i].height = 1 * 19 + 1

C23_Witness ==
  \E i \in Instances :
    /\ LiveInst(i) /\ children[i] = Str(<<"a">>) /\ code[i] = Str(<<>>)
    /\ view[i].height = 20

\* ------------------------------------------------------------- C24
\* A text with every line break ("\r\n", lone "\r", lone "\n") written
\* as "\n".
RECURSIVE Normalize(_)
Normalize(t) ==
  IF t = <<>> THEN <<>>
  ELSE IF t[1] = CR /\ Len(t) >= 2 /\ t[2] = LF
    THEN <<LF>> \o Normalize(SubSeq(t, 3, Len(t)))
  ELSE IF t[1] = CR THEN <<LF>> \o Normalize(Tail(t))
  ELSE <<t[1]>> \o Normalize(Tail(t))

\* u is t followed by one more line break.
OneMoreTrailingBreak(t, u) ==
  \/ u = t \o <<CR>>
  \/ u = t \o <<CR, LF>>
  \/ u = t \o <<LF>> /\ (t = <<>> \/ t[Len(t)] # CR)

\* C24: two live editors whose texts differ only in how their line breaks
\* are written ("\r\n", "\r" or "\n") have the same height, and a text
\* that is another one followed by a line break is one line (19) higher.
C24_BreakKindsCountOnce ==
  \A i, j \in Instances : (LiveInst(i) /\ LiveInst(j)) =>
    /\ Normalize(code[i].val) = Normalize(code[j].val)
         => view[i].height = view[j].height
    /\ OneMoreTrailingBreak(code[i].val, code[j].val)
         => view[j].height = view[i].height + 19
    /\ view[i].height = (Breaks(Normalize(code[i].val)) + 1) * 19 + 1

C24_Witness ==
  \E i, j \in Instances :
    /\ LiveInst(i) /\ code[i] = Str(<<CR, LF>>) /\ view[i].height = 39
    /\ LiveInst(j) /\ code[j] = Str(<<CR>>) /\ view[j].height = 39

\* ------------------------------------------------------------- C25
\* C25: an edit that leaves the number of line breaks of the buffer
\* unchanged leaves the height unchanged.
C25_SameBreaksSameHeight ==
  [][\A i \in Instances :
       (EditStep(i) /\ Breaks(code'[i].val) = Breaks(code[i].val))
         => view'[i].height = view[i].height]_vars

C25_Witness ==
  \E i \in Instances :
    /\ LiveInst(i) /\ children[i] = Str(<<CR, LF>>) /\ code[i] = Str(<<"a", LF>>)
    /\ view[i].height = 39
\* ------------------------------------------------------------- C26
\* C26: a re-render that passes a different text to a mounted live
\* instance leaves its state as it was, and the editor still shows that
\* state.
C26_NotReseeded ==
  [][\A i \in Instances :
       (LiveInst(i) /\ status'[i] = "Mounted" /\ className'[i] = LiveTag
          /\ children'[i] # children[i]) =>
         /\ code'[i] = code[i]
         /\ view'[i].kind = "Live"
         /\ view'[i].value = code[i].val]_vars

C26_Witness ==
  \E i \in Instances :
    /\ LiveInst(i) /\ code[i] = Str(<<CR>>)
    /\ children[i] = Str(<<"a", LF, "a">>) /\ view[i].value = <<CR>>

\* ------------------------------------------------------------- C27
\* C27: after a re-render that passes a different text to a mounted static
\* instance, the span shows the new text.
C27_StaticShowsCurrentProp ==
  [][\A i \in Instances :
       (StaticInst(i) /\ status'[i] = "Mounted" /\ view'[i].kind = "Static"
          /\ children'[i] # children[i]) =>
         view'[i].children = children'[i]]_vars

C27_Witness ==
  \E i \in Instances :
    /\ StaticInst(i) /\ className[i] = LiveTag /\ code[i] = Undefined
    /\ children[i] = Str(<<"a", LF, "a">>)
    /\ view[i].children = Str(<<"a", LF, "a">>)

\* ------------------------------------------------------------- C28
\* C28: a re-render that takes the tag of a live instance away from
\* "lang-tsx" shows the text prop in the static span and keeps the state;
\* a re-render that gives a static instance holding a string state the tag
\* "lang-tsx" shows that state in the live editor.
C28_TagToggleKeepsState ==
  [][\A i \in Instances :
       /\ (LiveInst(i) /\ status'[i] = "Mounted" /\ className'[i] # LiveTag) =>
            /\ view'[i].kind = "Static"
            /\ view'[i].children = children'[i]
            /\ code'[i] = code[i]
       /\ (StaticInst(i) /\ status'[i] = "Mounted" /\ className'[i] = LiveTag
             /\ className[i] # LiveTag /\ typeOf(code[i]) = "string") =>
            /\ view'[i].kind = "Live"
            /\ view'[i].value = code[i].val
            /\ code'[i] = code[i]]_vars

C28_Witness ==
  \E i, j \in Instances :
    /\ StaticInst(i) /\ className[i] # LiveTag /\ code[i] = Str(<<LF, LF>>)
    /\ view[i].children = children[i]
    /\ LiveInst(j) /\ code[j] = Str(<<CR, LF>>) /\ view[j].value = <<CR, LF>>
====
